---- MODULE Spec2Model ----
(***************************************************************************)
(* MeasurePowerEnergy (core/measure.py): the periodic power/energy        *)
(* sampling and accumulation engine.                                       *)
(*                                                                         *)
(* Units.  Floating-point quantities are held as exact integers:           *)
(*   - time: whole seconds of the perf_counter() clock;                    *)
(*   - provider power: watts; provider energy: whole energy units;         *)
(*   - usage ratios: multiples of 1/RatioScale (ratio 1.0 = RatioScale);   *)
(*   - system_power: multiples of 1/RatioScale watt;                       *)
(*   - system_energy: multiples of 1/(3600 * RatioScale) watt-hour, so     *)
(*     that (system_power * last_duration) / 3600 is system_power *        *)
(*     last_duration in that unit.                                         *)
(*                                                                         *)
(* Time.  perf_counter() is monotonic: a reading is the one before plus a  *)
(* tick of 0 .. MaxTick seconds, and each time.sleep(1) of                 *)
(* get_estimated_system_power adds SleepSeconds.  The readings of lines    *)
(* 101 and 156 feed the debug log only and are not kept.                   *)
(***************************************************************************)
(* Not modelled: the logger calls, and failures of psutil or of the        *)
(* attribute accesses made for logging.                                    *)
(***************************************************************************)
EXTENDS Integers, Sequences, FiniteSets, TLC

\* ---------------------------------------------------------------- bounds
MaxProviders == 2
MaxCalls == 2
MaxTick == 1
StartClock == 5
MaxElapsed == 3
RatioScale == 4

\* ------------------------------------------------------ program constants
cpu_base_watts == 65
network_max_bytes == 125000000
DefaultDiskPower == 10
DefaultNetworkPower == 3
DefaultPeripheralPower == 10
SleepSeconds == 1

\* ----------------------------------------------------------- input domains
\* A hardware object: its class (isinstance) and, for AppleSiliconChip, chip_part.
\* "Other" is any class that is none of CPU, GPU, RAM, AppleSiliconChip.
HardwareKinds ==
    << [class |-> "CPU", chip_part |-> "none"],
       [class |-> "AppleSiliconChip", chip_part |-> "CPU"],
       [class |-> "Other", chip_part |-> "none"],
       [class |-> "GPU", chip_part |-> "none"],
       [class |-> "AppleSiliconChip", chip_part |-> "GPU"],
       [class |-> "AppleSiliconChip", chip_part |-> "ANE"],
       [class |-> "RAM", chip_part |-> "none"] >>

\* The hardware lists of the model, of every length up to MaxProviders: n objects
\* of one kind, and n objects of successive kinds starting from any kind.
Repeated(k, n) == [i \in 1 .. n |-> HardwareKinds[k]]
Successive(k, n) == [i \in 1 .. n |-> HardwareKinds[((k + i - 2) % Len(HardwareKinds)) + 1]]
HardwareLists ==
    { Repeated(k, n) : k \in 1 .. Len(HardwareKinds), n \in 0 .. MaxProviders }
    \cup { Successive(k, n) : k \in 1 .. Len(HardwareKinds), n \in 0 .. MaxProviders }

PueValues == {1, 2}

\* (power, energy) pairs a provider's measure_power_and_energy returns.
Outputs == { [power |-> 30, energy |-> 0], [power |-> 65, energy |-> 3] }

\* psutil.cpu_percent readings (multiples of 20, so the estimate is whole watts).
CpuPercents == {20, 100}

\* psutil disk / network counter snapshots, in bytes, and the pairs of snapshots
\* (before and after the one-second window) a call reads: no traffic, half the
\* reference rate, ten times the reference rate, and counters that went down.
ByteStep == network_max_bytes \div RatioScale
DiskSnapshot(k) == [read_bytes |-> k * ByteStep, write_bytes |-> k * ByteStep]
NetSnapshot(k) == [bytes_sent |-> k * ByteStep, bytes_recv |-> k * ByteStep]
IoWindows ==
    { [disk |-> << DiskSnapshot(1), DiskSnapshot(1) >>,
       net |-> << NetSnapshot(1), NetSnapshot(1) >>],
      [disk |-> << DiskSnapshot(0), DiskSnapshot(1) >>,
       net |-> << NetSnapshot(0), NetSnapshot(1) >>],
      [disk |-> << DiskSnapshot(0), DiskSnapshot(5 * RatioScale) >>,
       net |-> << NetSnapshot(1), NetSnapshot(1) >>],
      [disk |-> << DiskSnapshot(5 * RatioScale), DiskSnapshot(0) >>,
       net |-> << NetSnapshot(0), NetSnapshot(1) >>] }

Min(a, b) == IF a <= b THEN a ELSE b

\* ------------------------------------------------------------------ state
VARIABLES
    self,           \* the MeasurePowerEnergy object's attributes
    twin,           \* a second object run from the same state with other provider outputs
    clock,          \* the latest perf_counter() reading
    pc,             \* "idle", or "loop" while do_measure iterates over _hardware
    idx,            \* index of the next hardware object of the loop
    calls,          \* number of do_measure calls begun
    last_op,        \* what the latest step was
    last_duration,  \* do_measure's local last_duration, as last computed
    returned,       \* what the latest measure_power_and_energy returned
    cpu_percent_read,    \* the latest psutil.cpu_percent reading of the CPU branch
    durations,      \* the last_duration passed to each provider the current call measured
    prev_durations, \* the same for the call before, and whether that call raised
    usage,          \* <<disk_usage_ratio, net_usage_ratio>> as last computed
    elapsed_sum,    \* sum of the last_duration values of line 162 over completed calls
    construct_time  \* perf_counter() at construction

vars == << self, twin, clock, pc, idx, calls, last_op, last_duration, returned, cpu_percent_read,
           durations, prev_durations, usage, elapsed_sum, construct_time >>

\* __init__
init_object(hardware, pue, disk_power, network_power, peripheral_power, now) ==
    [ last_measured_time |-> now,
      hardware |-> hardware,
      pue |-> pue,
      disk_base_watts |-> disk_power,
      network_base_watts |-> network_power,
      peripherals_base_watts |-> peripheral_power,
      total_cpu_energy |-> 0,
      total_gpu_energy |-> 0,
      total_ram_energy |-> 0,
      total_energy |-> 0,
      cpu_power |-> 0,
      gpu_power |-> 0,
      ram_power |-> 0,
      system_power |-> 0,
      system_energy |-> 0 ]

Init ==
    /\ \E hardware \in HardwareLists, pue \in PueValues :
          self = init_object(hardware, pue, DefaultDiskPower, DefaultNetworkPower,
                             DefaultPeripheralPower, StartClock)
    /\ twin = self
    /\ clock = StartClock
    /\ pc = "idle"
    /\ idx = 1
    /\ calls = 0
    /\ last_op = "init"
    /\ last_duration = 0
    /\ returned = [power |-> 0, energy |-> 0]
    /\ cpu_percent_read = 0
    /\ durations = <<>>
    /\ prev_durations = [raised |-> FALSE, passed |-> <<>>]
    /\ usage = <<0, 0>>
    /\ elapsed_sum = 0
    /\ construct_time = StartClock

\* ------------------------------------------------- get_estimated_system_power
\* min(total_bytes / network_max_bytes, 1.0), in multiples of 1/RatioScale.
usage_ratio(total_bytes) == Min(total_bytes \div ByteStep, RatioScale)

disk_usage_ratio(disk1, disk2) ==
    LET bytes_read == disk2.read_bytes - disk1.read_bytes
        bytes_written == disk2.write_bytes - disk1.write_bytes
    IN usage_ratio(bytes_read + bytes_written)

net_usage_ratio(net1, net2) ==
    LET bytes_sent == net2.bytes_sent - net1.bytes_sent
        bytes_recv == net2.bytes_recv - net1.bytes_recv
    IN usage_ratio(bytes_sent + bytes_recv)

\* Mutant: the estimate also counts the CPU power reading.
get_estimated_system_power_with_cpu(s, disk1, disk2, net1, net2) ==
    LET disk_power == disk_usage_ratio(disk1, disk2) * s.disk_base_watts
        network_power == net_usage_ratio(net1, net2) * s.network_base_watts
    IN [s EXCEPT !.system_power =
                     disk_power + network_power + RatioScale * s.peripherals_base_watts
                       + RatioScale * s.cpu_power]

get_estimated_system_power(s, disk1, disk2, net1, net2) ==
    LET disk_power == disk_usage_ratio(disk1, disk2) * s.disk_base_watts
        network_power == net_usage_ratio(net1, net2) * s.network_base_watts
    IN [s EXCEPT !.system_power =
                     disk_power + network_power + RatioScale * s.peripherals_base_watts]

\* ------------------------------------------------------------- do_measure
\* Mutant: the AppleSiliconChip CPU branch accumulates into the GPU total.
dispatch_soc_cpu_as_gpu(s, hardware, power, energy, cpu_percent) ==
    LET s1 == [s EXCEPT !.total_energy = @ + energy]
    IN IF hardware.class = "CPU"
         THEN [s1 EXCEPT !.total_cpu_energy = @ + energy,
                         !.cpu_power = (cpu_percent * cpu_base_watts) \div 100]
       ELSE IF hardware.class = "GPU"
         THEN [s1 EXCEPT !.total_gpu_energy = @ + energy, !.gpu_power = power]
       ELSE IF hardware.class = "RAM"
         THEN [s1 EXCEPT !.total_ram_energy = @ + energy, !.ram_power = power]
       ELSE IF hardware.class = "AppleSiliconChip"
         THEN IF hardware.chip_part = "CPU"
                THEN [s1 EXCEPT !.total_gpu_energy = @ + energy, !.cpu_power = power]
              ELSE IF hardware.chip_part = "GPU"
                THEN [s1 EXCEPT !.total_gpu_energy = @ + energy, !.gpu_power = power]
              ELSE s1
       ELSE s1

\* The loop body from line 109 on: energy is the overhead-adjusted energy, power
\* the power the provider returned, cpu_percent the psutil reading of the CPU branch.
dispatch(s, hardware, power, energy, cpu_percent) ==
    LET s1 == [s EXCEPT !.total_energy = @ + energy]
    IN IF hardware.class = "CPU"
         THEN [s1 EXCEPT !.total_cpu_energy = @ + energy,
                         !.cpu_power = (cpu_percent * cpu_base_watts) \div 100]
       ELSE IF hardware.class = "GPU"
         THEN [s1 EXCEPT !.total_gpu_energy = @ + energy, !.gpu_power = power]
       ELSE IF hardware.class = "RAM"
         THEN [s1 EXCEPT !.total_ram_energy = @ + energy, !.ram_power = power]
       ELSE IF hardware.class = "AppleSiliconChip"
         THEN IF hardware.chip_part = "CPU"
                THEN [s1 EXCEPT !.total_cpu_energy = @ + energy, !.cpu_power = power]
              ELSE IF hardware.chip_part = "GPU"
                THEN [s1 EXCEPT !.total_gpu_energy = @ + energy, !.gpu_power = power]
              ELSE s1
       ELSE s1

\* Mutant: the overhead factor is applied to the running total as well.
measure_hardware_compounding(s, hardware, out, cpu_percent) ==
    dispatch([s EXCEPT !.total_energy = @ * s.pue], hardware, out.power,
             out.energy * s.pue, cpu_percent)

\* One iteration of the loop once measure_power_and_energy returned out:
\* energy *= self._pue, then the accumulation.
measure_hardware(s, hardware, out, cpu_percent) ==
    dispatch(s, hardware, out.power, out.energy * s.pue, cpu_percent)

\* Mutant: the elapsed time is stored where the clock reading belongs.
finish_measure_stores_duration(s, disk1, disk2, net1, net2, t162, t172) ==
    LET s1 == get_estimated_system_power(s, disk1, disk2, net1, net2)
        duration == t162 - s.last_measured_time
    IN [s1 EXCEPT !.system_energy = @ + s1.system_power * duration,
                  !.last_measured_time = t172 - s.last_measured_time]

\* Mutant: last_measured_time is not set at the end of the call.
finish_measure_keeps_time(s, disk1, disk2, net1, net2, t162, t172) ==
    LET s1 == get_estimated_system_power(s, disk1, disk2, net1, net2)
        duration == t162 - s.last_measured_time
    IN [s1 EXCEPT !.system_energy = @ + s1.system_power * duration]

\* After the loop (lines 161-172): t162 and t172 are the perf_counter() readings
\* of lines 162 and 172.
finish_measure(s, disk1, disk2, net1, net2, t162, t172) ==
    LET s1 == get_estimated_system_power(s, disk1, disk2, net1, net2)
        duration == t162 - s.last_measured_time
    IN [s1 EXCEPT !.system_energy = @ + s1.system_power * duration,
                  !.last_measured_time = t172]

\* ---------------------------------------------------------------- actions
\* The model follows the clock up to MaxElapsed seconds after construction.
Horizon == StartClock + MaxElapsed

\* do_measure is called.
BeginMeasure ==
    /\ pc = "idle"
    /\ calls < MaxCalls
    /\ pc' = "loop"
    /\ idx' = 1
    /\ calls' = calls + 1
    /\ twin' = self
    /\ durations' = <<>>
    /\ prev_durations' = [raised |-> last_op = "raised", passed |-> durations]
    /\ last_op' = "begin"
    /\ UNCHANGED << self, clock, last_duration, returned, cpu_percent_read, usage, elapsed_sum, construct_time >>

\* One iteration of the loop whose provider returns.  The twin's provider returns
\* another (power, energy) at the same clock reading.
MeasureHardware ==
    /\ pc = "loop"
    /\ idx <= Len(self.hardware)
    /\ \E t103 \in clock .. clock + MaxTick, out \in Outputs,
          percent \in (IF self.hardware[idx].class = "CPU" THEN CpuPercents ELSE {cpu_percent_read}) :
          /\ t103 <= Horizon
          /\ cpu_percent_read' = percent
          /\ clock' = t103
          /\ last_duration' = t103 - self.last_measured_time
          /\ durations' = Append(durations, t103 - self.last_measured_time)
          /\ returned' = out
          /\ self' = measure_hardware(self, self.hardware[idx], out, percent)
          /\ \E other \in Outputs \ {out} :
                twin' = measure_hardware(twin, twin.hardware[idx], other, percent)
    /\ idx' = idx + 1
    /\ last_op' = "measured"
    /\ UNCHANGED << pc, calls, prev_durations, usage, elapsed_sum, construct_time >>

\* Mutant: the exception is caught and the loop goes on with the next provider.
ProviderRaisesSkipped ==
    /\ pc = "loop"
    /\ idx <= Len(self.hardware)
    /\ \E t103 \in clock .. clock + MaxTick :
          /\ t103 <= Horizon
          /\ clock' = t103
          /\ last_duration' = t103 - self.last_measured_time
    /\ idx' = idx + 1
    /\ last_op' = "raised"
    /\ UNCHANGED << self, twin, pc, calls, returned, cpu_percent_read, durations,
                    prev_durations, usage, elapsed_sum, construct_time >>

\* One iteration of the loop whose provider raises: the exception leaves do_measure.
ProviderRaises ==
    /\ pc = "loop"
    /\ idx <= Len(self.hardware)
    /\ \E t103 \in clock .. clock + MaxTick :
          /\ t103 <= Horizon
          /\ clock' = t103
          /\ last_duration' = t103 - self.last_measured_time
    /\ pc' = "idle"
    /\ last_op' = "raised"
    /\ UNCHANGED << self, twin, idx, calls, returned, cpu_percent_read, durations, prev_durations, usage,
                    elapsed_sum, construct_time >>

\* The loop is over: residual estimate, residual energy, last_measured_time.
FinishMeasure ==
    /\ pc = "loop"
    /\ idx > Len(self.hardware)
    /\ \E io \in IoWindows :
          LET t162 == clock + 2 * SleepSeconds
          IN \E t172 \in t162 .. t162 + MaxTick :
                /\ t172 <= Horizon
                /\ self' = finish_measure(self, io.disk[1], io.disk[2], io.net[1], io.net[2],
                                          t162, t172)
                /\ twin' = finish_measure(twin, io.disk[1], io.disk[2], io.net[1], io.net[2],
                                          t162, t172)
                /\ usage' = << disk_usage_ratio(io.disk[1], io.disk[2]),
                               net_usage_ratio(io.net[1], io.net[2]) >>
                /\ last_duration' = t162 - self.last_measured_time
                /\ elapsed_sum' = elapsed_sum + (t162 - self.last_measured_time)
                /\ clock' = t172
    /\ pc' = "idle"
    /\ last_op' = "finished"
    /\ UNCHANGED << idx, calls, returned, cpu_percent_read, durations, prev_durations,
                    construct_time >>

Next ==
    \/ BeginMeasure
    \/ MeasureHardware
    \/ ProviderRaises
    \/ FinishMeasure

Spec == Init /\ [][Next]_vars

\* ----------------------------------------------------------------- claims
CpuLike(hardware) ==
    \/ hardware.class = "CPU"
    \/ hardware.class = "AppleSiliconChip" /\ hardware.chip_part = "CPU"

GpuLike(hardware) ==
    \/ hardware.class = "GPU"
    \/ hardware.class = "AppleSiliconChip" /\ hardware.chip_part = "GPU"

Recognized(hardware) == CpuLike(hardware) \/ GpuLike(hardware) \/ hardware.class = "RAM"

\* The total of the class a recognized hardware object belongs to.
ClassTotal(s, hardware) ==
    IF CpuLike(hardware) THEN s.total_cpu_energy
    ELSE IF GpuLike(hardware) THEN s.total_gpu_energy
    ELSE s.total_ram_energy

ClassTotalsUnchanged ==
    /\ self'.total_cpu_energy = self.total_cpu_energy
    /\ self'.total_gpu_energy = self.total_gpu_energy
    /\ self'.total_ram_energy = self.total_ram_energy

\* The hardware object the latest MeasureHardware step measured.
Measured == self.hardware[idx - 1]

\* C1: at all times total_hardware_energy is the sum of the CPU, GPU and RAM
\* totals, whatever the provider list.
C1_SumInvariant ==
    self.total_energy
        = self.total_cpu_energy + self.total_gpu_energy + self.total_ram_energy

\* C2: a provider of an unrecognized class changes none of the four totals and
\* does not end the loop: the next provider of the list is measured next.
C2_UnknownClassTolerated ==
    [][ (last_op' = "measured" /\ self.hardware[idx].class = "Other")
            => /\ ClassTotalsUnchanged
               /\ self'.total_energy = self.total_energy
               /\ pc' = "loop"
               /\ idx' = idx + 1 ]_vars

\* C3: with non-negative provider energies, no step lowers total_cpu_energy,
\* total_gpu_energy, total_ram_energy or estimated_system_energy.
C3_Monotone ==
    [][ /\ self'.total_cpu_energy >= self.total_cpu_energy
        /\ self'.total_gpu_energy >= self.total_gpu_energy
        /\ self'.total_ram_energy >= self.total_ram_energy
        /\ self'.system_energy >= self.system_energy ]_vars

\* C4: the residual estimate of a completed call is the same in two runs from the
\* same state that differ in what the providers return only, and nothing but the
\* providers' overhead-adjusted energy is ever added to the four totals.
C4_ResidualIndependent ==
    [][ /\ last_op' = "finished"
            => /\ twin'.system_power = self'.system_power
               /\ twin'.system_energy = self'.system_energy
               /\ ClassTotalsUnchanged
               /\ self'.total_energy = self.total_energy
        /\ last_op' = "measured"
            => /\ self'.total_energy = self.total_energy + returned'.energy * self.pue
               /\ \A f \in {"total_cpu_energy", "total_gpu_energy", "total_ram_energy"} :
                     self'[f] - self[f] \in {0, returned'.energy * self.pue}
               /\ self'.system_power = self.system_power
               /\ self'.system_energy = self.system_energy ]_vars

\* C4 witness: a completed call whose twin run was fed other provider energies.
C4_Witness ==
    /\ last_op = "finished"
    /\ twin.total_energy # self.total_energy
    /\ twin.cpu_power # self.cpu_power
    /\ self.system_energy > 0

\* C5: both usage ratios lie in [0, 1], so estimated_system_power lies between
\* peripherals_base_watts and the sum of the three base wattages.
C5_RatiosClamped ==
    last_op = "finished"
        => /\ usage[1] \in 0 .. RatioScale
           /\ usage[2] \in 0 .. RatioScale
           /\ self.system_power >= RatioScale * self.peripherals_base_watts
           /\ self.system_power
                 <= RatioScale * (self.disk_base_watts + self.network_base_watts
                                    + self.peripherals_base_watts)

\* C6: a recognized provider returning energy E adds exactly E * pue to
\* total_hardware_energy and to the total of its class, in every call.
C6_OverheadAppliedOnce ==
    [][ (last_op' = "measured" /\ Recognized(self.hardware[idx]))
            => /\ self'.total_energy = self.total_energy + returned'.energy * self.pue
               /\ ClassTotal(self', self.hardware[idx])
                     = ClassTotal(self, self.hardware[idx]) + returned'.energy * self.pue ]_vars

\* C6 witness: a recognized provider measured in a second call, with pue > 1, on
\* top of energy accumulated before.
C6_Witness ==
    /\ last_op = "measured"
    /\ calls = 2
    /\ Recognized(Measured)
    /\ self.pue > 1
    /\ returned.energy > 0
    /\ ClassTotal(self, Measured) > returned.energy * self.pue

\* C7: last_sample_time changes only in the step that completes a call, and that
\* step leaves it strictly greater than it was.
C7_LastSampleTimeAdvances ==
    [][ /\ self'.last_measured_time # self.last_measured_time
            => last_op' = "finished" /\ pc' = "idle"
        /\ last_op' = "finished"
            => self'.last_measured_time > self.last_measured_time ]_vars

\* C7 witness: a call that measured a provider completed, after one that raised.
C7_Witness ==
    /\ last_op = "finished"
    /\ calls = 2
    /\ prev_durations.raised
    /\ Len(durations) >= 1
    /\ self.last_measured_time > construct_time

C9_RaisePropagates ==
    [][ /\ last_op' = "raised"
            => /\ pc' = "idle"
               /\ self' = self
        /\ last_op' = "measured" => last_op \in {"begin", "measured"}
        /\ (last_op' = "measured" /\ prev_durations.raised
                /\ idx <= Len(prev_durations.passed))
            => last_duration' >= prev_durations.passed[idx] ]_vars

\* C9 witness: a provider measured again in the call after one that raised, its
\* energy of the raised call still in the totals.
C9_Witness ==
    /\ last_op = "measured"
    /\ prev_durations.raised
    /\ idx - 1 <= Len(prev_durations.passed)
    /\ returned.energy > 0
    /\ self.total_energy > returned.energy * self.pue
    /\ self.last_measured_time = construct_time

\* C10 as stated: a CPU provider and a SoC part CPU add the adjusted energy to
\* total_cpu_energy and total_hardware_energy and set cpu_power to the power the
\* provider returned; likewise GPU and SoC part GPU.
C10_SocPartSameAsClass ==
    [][ last_op' = "measured"
            => /\ CpuLike(self.hardware[idx])
                    => /\ self'.total_cpu_energy
                             = self.total_cpu_energy + returned'.energy * self.pue
                       /\ self'.total_energy = self.total_energy + returned'.energy * self.pue
                       /\ self'.cpu_power = returned'.power
               /\ GpuLike(self.hardware[idx])
                    => /\ self'.total_gpu_energy
                             = self.total_gpu_energy + returned'.energy * self.pue
                       /\ self'.total_energy = self.total_energy + returned'.energy * self.pue
                       /\ self'.gpu_power = returned'.power ]_vars

\* C10 as amended: the same, except that a CPU-class provider leaves cpu_power at
\* (cpu_percent / 100) * 65, whatever power it returned.
C10_SocPartSameEnergy ==
    [][ last_op' = "measured"
            => /\ CpuLike(self.hardware[idx])
                    => /\ self'.total_cpu_energy
                             = self.total_cpu_energy + returned'.energy * self.pue
                       /\ self'.total_energy = self.total_energy + returned'.energy * self.pue
                       /\ self'.cpu_power
                             = IF self.hardware[idx].class = "CPU"
                                 THEN (cpu_percent_read' * cpu_base_watts) \div 100
                                 ELSE returned'.power
               /\ GpuLike(self.hardware[idx])
                    => /\ self'.total_gpu_energy
                             = self.total_gpu_energy + returned'.energy * self.pue
                       /\ self'.total_energy = self.total_energy + returned'.energy * self.pue
                       /\ self'.gpu_power = returned'.power ]_vars

\* C10 witness: a SoC part CPU measured after a CPU-class provider whose power
\* reading was overridden.
C10_Witness ==
    /\ last_op = "measured"
    /\ idx = 3
    /\ self.hardware[1].class = "CPU"
    /\ Measured.class = "AppleSiliconChip" /\ Measured.chip_part = "CPU"
    /\ returned.energy > 0
    /\ self.cpu_power = returned.power
    /\ self.total_cpu_energy >= returned.energy * self.pue

====
